---- MODULE Spec2Model ----
(***************************************************************************)
(* Disk scheduling simulator (src/disk.py): the DiskScheduler engine with  *)
(* its four policies and its metrics, driven by the GUI's run_simulation   *)
(* handler (input validation, policy dispatch, result map).                *)
(*                                                                         *)
(* Python lists are sequences.  A Python float that is the quotient of two *)
(* integers is kept exact, as the reduced fraction <<numerator,            *)
(* denominator>>; the integer literal 0 returned by the guards of          *)
(* calculate_metrics is the fraction <<0, 1>>.                             *)
(***************************************************************************)
EXTENDS Integers, Sequences, FiniteSets, Bags, TLC

VARIABLES
    disk_size_entry,  \* the disk size field, as int() reads it
    head_entry,       \* the head field, as int() reads it
    requests_entry,   \* the request field, as the list of int() of its tokens
    requests_list,    \* the list object _validate_inputs returns: run_simulation's
                      \* requests, which every scheduler built from it refers to
    algo_var,         \* the algorithm combo box
    direction_var,    \* the SCAN direction combo box
    pc,               \* position of run_simulation: idle, dispatch, sstf, done, error
    todo,             \* the policies _run_algorithm has still to run
    scheduler,        \* the DiskScheduler instance in use, or None
    remaining,        \* sstf's local working list
    results,          \* the result map of _run_algorithm
    error             \* the message of the ValueError shown, or NoError

vars == <<disk_size_entry, head_entry, requests_entry, requests_list, algo_var, direction_var,
          pc, todo, scheduler, remaining, results, error>>

----------------------------------------------------------------------------
(* Bounds of the explored inputs *)

\* largest cylinder number typed into a field (the smallest is -1)
MaxDisk == 4

\* largest number of requests typed into the request field
MaxLen == 3

Values == -1 .. MaxDisk

RequestLists == UNION {[1..n -> Values] : n \in 0..MaxLen}

----------------------------------------------------------------------------
(* Values *)

None == [none |-> TRUE]

NoError == "none"

EmptyResults == [a \in {} |-> None]

Policies == <<"FCFS", "SSTF", "SCAN", "C-SCAN">>

Algorithms == {"FCFS", "SSTF", "SCAN", "C-SCAN", "Compare All"}

Directions == {"right", "left"}

PresetDiskSize == 200

PresetHead == 50

PresetRequests == <<98, 183, 37, 122, 14, 124, 65, 67>>

----------------------------------------------------------------------------
(* Arithmetic of the built-ins the engine uses *)

Abs(x) == IF x < 0 THEN -x ELSE x

RECURSIVE Gcd(_, _)
Gcd(a, b) == IF b = 0 THEN a ELSE Gcd(b, a % b)

\* a / b on two non-negative integers, b > 0: the exact quotient
TrueDiv(a, b) == LET g == Gcd(a, b) IN <<a \div g, b \div g>>

Zero == <<0, 1>>

\* sum(abs(s[i] - s[i-1]) for i in range(1, len(s)))
RECURSIVE SumAbsDiff(_, _)
SumAbsDiff(s, i) ==
    IF i > Len(s) THEN 0
    ELSE Abs(s[i] - s[i-1]) + SumAbsDiff(s, i + 1)

\* sorted(s): ascending, duplicates kept
RECURSIVE Insert(_, _)
Insert(x, s) ==
    IF s = <<>> THEN <<x>>
    ELSE IF x <= Head(s) THEN <<x>> \o s
    ELSE <<Head(s)>> \o Insert(x, Tail(s))

RECURSIVE sorted(_)
sorted(s) == IF s = <<>> THEN <<>> ELSE Insert(Head(s), sorted(Tail(s)))

\* s[::-1]
Reversed(s) == [i \in 1..Len(s) |-> s[Len(s) + 1 - i]]

----------------------------------------------------------------------------
(* DiskScheduler *)

DiskScheduler(requests, head, disk_size) ==
    [requests |-> requests, head |-> head, disk_size |-> disk_size,
     seek_sequence |-> <<>>, total_seek |-> 0]

\* a faulty calculate_metrics: the differences are summed without abs()
calculate_metrics_signed(self) ==
    LET seq == self.seek_sequence
        Signed[i \in 1..Len(seq)] ==
            IF i = 1 THEN 0 ELSE Signed[i-1] + (seq[i] - seq[i-1])
        total == IF seq = <<>> THEN 0 ELSE Signed[Len(seq)]
        avg_seek == IF self.requests # <<>>
                    THEN TrueDiv(Abs(total), Len(self.requests)) ELSE Zero
        throughput == IF total > 0
                      THEN TrueDiv(Len(self.requests), total + 1) ELSE Zero
    IN [self |-> [self EXCEPT !.total_seek = total],
        ret |-> <<total, avg_seek, throughput>>]

\* a faulty calculate_metrics: the average is taken over the moves of the arm
calculate_metrics_per_move(self) ==
    LET total == SumAbsDiff(self.seek_sequence, 2)
        avg_seek == IF self.requests # <<>>
                    THEN TrueDiv(total, Len(self.seek_sequence) - 1) ELSE Zero
        throughput == IF total > 0
                      THEN TrueDiv(Len(self.requests), total + 1) ELSE Zero
    IN [self |-> [self EXCEPT !.total_seek = total],
        ret |-> <<total, avg_seek, throughput>>]

\* the scheduler after the call, and the tuple the call returns
calculate_metrics(self) ==
    LET total == SumAbsDiff(self.seek_sequence, 2)
        avg_seek == IF self.requests # <<>>
                    THEN TrueDiv(total, Len(self.requests)) ELSE Zero
        throughput == IF total > 0
                      THEN TrueDiv(Len(self.requests), total + 1) ELSE Zero
    IN [self |-> [self EXCEPT !.total_seek = total],
        ret |-> <<total, avg_seek, throughput>>]

\* a faulty fcfs: the requests are served in ascending order
fcfs_sorted(self) ==
    calculate_metrics([self EXCEPT !.seek_sequence = <<self.head>> \o sorted(self.requests)])

fcfs(self) ==
    calculate_metrics([self EXCEPT !.seek_sequence = <<self.head>> \o self.requests])

\* min(remaining, key=lambda x: abs(x - last)): the first element of least key
RECURSIVE MinByKey(_, _, _)
MinByKey(s, last, best) ==
    IF s = <<>> THEN best
    ELSE IF Abs(Head(s) - last) < Abs(best - last)
         THEN MinByKey(Tail(s), last, Head(s))
         ELSE MinByKey(Tail(s), last, best)

\* a faulty min: the last element of least key
RECURSIVE MinByKeyLast(_, _, _)
MinByKeyLast(s, last, best) ==
    IF s = <<>> THEN best
    ELSE IF Abs(Head(s) - last) <= Abs(best - last)
         THEN MinByKeyLast(Tail(s), last, Head(s))
         ELSE MinByKeyLast(Tail(s), last, best)

closest_last_of_ties(rem, last) == MinByKeyLast(Tail(rem), last, Head(rem))

closest(rem, last) == MinByKey(Tail(rem), last, Head(rem))

\* list.remove(x): drops the first element equal to x
RECURSIVE Remove(_, _)
Remove(s, x) ==
    IF s = <<>> THEN <<>>
    ELSE IF Head(s) = x THEN Tail(s)
    ELSE <<Head(s)>> \o Remove(Tail(s), x)

\* a faulty sstf iteration: the distance is taken from the head, not from the
\* last position visited
sstf_iterate_from_head(self, rem) ==
    LET c == closest(rem, self.head)
    IN [self |-> [self EXCEPT !.seek_sequence = Append(@, c)],
        remaining |-> Remove(rem, c)]

\* a faulty sstf iteration: every occurrence of the chosen cylinder is removed
sstf_iterate_remove_all(self, rem) ==
    LET c == closest(rem, self.seek_sequence[Len(self.seek_sequence)])
    IN [self |-> [self EXCEPT !.seek_sequence = Append(@, c)],
        remaining |-> SelectSeq(rem, LAMBDA x : x # c)]

\* a faulty sstf iteration: remaining is self.requests itself, not a copy of
\* it, so the removal empties the scheduler's list
sstf_iterate_in_place(self, rem) ==
    LET c == closest(rem, self.seek_sequence[Len(self.seek_sequence)])
    IN [self |-> [self EXCEPT !.seek_sequence = Append(@, c),
                              !.requests = Remove(rem, c)],
        remaining |-> Remove(rem, c)]

\* sstf up to its loop: the seek sequence holds the head alone
sstf_begin(self) == [self EXCEPT !.seek_sequence = <<self.head>>]

\* one iteration of sstf's while loop
sstf_iterate(self, rem) ==
    LET c == closest(rem, self.seek_sequence[Len(self.seek_sequence)])
    IN [self |-> [self EXCEPT !.seek_sequence = Append(@, c)],
        remaining |-> Remove(rem, c)]

\* a faulty scan: the arm goes to the top boundary whenever it moved right
scan_always_to_boundary(self, direction) ==
    LET sorted_requests == sorted(self.requests)
        seq ==
            IF direction = "right"
            THEN LET left == SelectSeq(sorted_requests, LAMBDA x : x < self.head)
                     right == SelectSeq(sorted_requests, LAMBDA x : x >= self.head)
                 IN right
                    \o (IF right # <<>> THEN <<self.disk_size - 1>> ELSE <<>>)
                    \o Reversed(left)
            ELSE LET left == SelectSeq(sorted_requests, LAMBDA x : x <= self.head)
                     right == SelectSeq(sorted_requests, LAMBDA x : x > self.head)
                 IN Reversed(left)
                    \o (IF left # <<>> /\ left[1] # 0 THEN <<0>> ELSE <<>>)
                    \o right
    IN calculate_metrics([self EXCEPT !.seek_sequence = <<self.head>> \o seq])

\* a faulty scan: to the left it partitions as to the right (< head, >= head)
scan_same_partition(self, direction) ==
    LET sorted_requests == sorted(self.requests)
        left == SelectSeq(sorted_requests, LAMBDA x : x < self.head)
        right == SelectSeq(sorted_requests, LAMBDA x : x >= self.head)
        seq ==
            IF direction = "right"
            THEN right
                 \o (IF right # <<>> /\ right[Len(right)] # self.disk_size - 1
                     THEN <<self.disk_size - 1>> ELSE <<>>)
                 \o Reversed(left)
            ELSE Reversed(left)
                 \o (IF left # <<>> /\ left[1] # 0 THEN <<0>> ELSE <<>>)
                 \o right
    IN calculate_metrics([self EXCEPT !.seek_sequence = <<self.head>> \o seq])

\* a faulty scan: the scheduler's own list is sorted (list.sort()), not a copy
scan_sorting_in_place(self, direction) ==
    LET sorted_requests == sorted(self.requests)
        seq ==
            IF direction = "right"
            THEN LET left == SelectSeq(sorted_requests, LAMBDA x : x < self.head)
                     right == SelectSeq(sorted_requests, LAMBDA x : x >= self.head)
                 IN right
                    \o (IF right # <<>> /\ right[Len(right)] # self.disk_size - 1
                        THEN <<self.disk_size - 1>> ELSE <<>>)
                    \o Reversed(left)
            ELSE LET left == SelectSeq(sorted_requests, LAMBDA x : x <= self.head)
                     right == SelectSeq(sorted_requests, LAMBDA x : x > self.head)
                 IN Reversed(left)
                    \o (IF left # <<>> /\ left[1] # 0 THEN <<0>> ELSE <<>>)
                    \o right
    IN calculate_metrics([self EXCEPT !.requests = sorted_requests,
                                      !.seek_sequence = <<self.head>> \o seq])

scan(self, direction) ==
    LET sorted_requests == sorted(self.requests)
        seq ==
            IF direction = "right"
            THEN LET left == SelectSeq(sorted_requests, LAMBDA x : x < self.head)
                     right == SelectSeq(sorted_requests, LAMBDA x : x >= self.head)
                 IN right
                    \o (IF right # <<>> /\ right[Len(right)] # self.disk_size - 1
                        THEN <<self.disk_size - 1>> ELSE <<>>)
                    \o Reversed(left)
            ELSE LET left == SelectSeq(sorted_requests, LAMBDA x : x <= self.head)
                     right == SelectSeq(sorted_requests, LAMBDA x : x > self.head)
                 IN Reversed(left)
                    \o (IF left # <<>> /\ left[1] # 0 THEN <<0>> ELSE <<>>)
                    \o right
    IN calculate_metrics([self EXCEPT !.seek_sequence = <<self.head>> \o seq])

\* a faulty cscan: the arm wraps to 0 only when a request lies below the head
cscan_wrap_if_needed(self) ==
    LET sorted_requests == sorted(self.requests)
        right == SelectSeq(sorted_requests, LAMBDA x : x >= self.head)
        left == SelectSeq(sorted_requests, LAMBDA x : x < self.head)
        seq == right
               \o (IF right # <<>> /\ right[Len(right)] # self.disk_size - 1
                   THEN <<self.disk_size - 1>> ELSE <<>>)
               \o (IF left # <<>> THEN <<0>> ELSE <<>>) \o left
    IN calculate_metrics([self EXCEPT !.seek_sequence = <<self.head>> \o seq])

\* a faulty cscan: the top boundary visit goes to disk_size, one past the end
cscan_boundary_at_size(self) ==
    LET sorted_requests == sorted(self.requests)
        right == SelectSeq(sorted_requests, LAMBDA x : x >= self.head)
        left == SelectSeq(sorted_requests, LAMBDA x : x < self.head)
        seq == right
               \o (IF right # <<>> /\ right[Len(right)] # self.disk_size - 1
                   THEN <<self.disk_size>> ELSE <<>>)
               \o <<0>> \o left
    IN calculate_metrics([self EXCEPT !.seek_sequence = <<self.head>> \o seq])

cscan(self) ==
    LET sorted_requests == sorted(self.requests)
        right == SelectSeq(sorted_requests, LAMBDA x : x >= self.head)
        left == SelectSeq(sorted_requests, LAMBDA x : x < self.head)
        seq == right
               \o (IF right # <<>> /\ right[Len(right)] # self.disk_size - 1
                   THEN <<self.disk_size - 1>> ELSE <<>>)
               \o <<0>> \o left
    IN calculate_metrics([self EXCEPT !.seek_sequence = <<self.head>> \o seq])

----------------------------------------------------------------------------
(* DiskSchedulerGUI *)

\* a faulty _validate_inputs: the upper ends of the ranges are inclusive
validate_inputs_inclusive(disk_size, head, requests) ==
    IF requests = <<>> THEN "Request queue cannot be empty."
    ELSE IF disk_size <= 0 THEN "Disk size must be positive."
    ELSE IF ~(0 <= head /\ head <= disk_size)
            \/ \E i \in 1..Len(requests) :
                  requests[i] < 0 \/ requests[i] > disk_size
         THEN "Head and requests must be within disk size (0 to disk_size-1)."
    ELSE NoError

\* the message _validate_inputs raises on the parsed fields, or NoError
validate_inputs(disk_size, head, requests) ==
    IF requests = <<>> THEN "Request queue cannot be empty."
    ELSE IF disk_size <= 0 THEN "Disk size must be positive."
    ELSE IF ~(0 <= head /\ head < disk_size)
            \/ \E i \in 1..Len(requests) :
                  requests[i] < 0 \/ requests[i] >= disk_size
         THEN "Head and requests must be within disk size (0 to disk_size-1)."
    ELSE NoError

\* results[a] = (scheduler.seek_sequence, metrics)
Store(res, a, sch, metrics) ==
    [x \in DOMAIN res \cup {a} |->
        IF x = a THEN <<sch.seek_sequence, metrics>> ELSE res[x]]

\* the scheduler a policy of the loop runs on: Compare All builds one per policy
Instance ==
    IF algo_var = "Compare All"
    THEN DiskScheduler(requests_list, head_entry, disk_size_entry)
    ELSE scheduler

\* a policy has returned: record its result, go on with the next policy if any;
\* self.requests is the shared list, so what the call did to it shows there
Returned(call) ==
    /\ scheduler' = call.self
    /\ requests_list' = call.self.requests
    /\ results' = Store(results, Head(todo), call.self, call.ret)
    /\ todo' = Tail(todo)
    /\ pc' = IF Tail(todo) = <<>> THEN "done" ELSE "dispatch"

Init ==
    /\ disk_size_entry \in Values
    /\ head_entry \in Values
    /\ requests_entry \in RequestLists
    /\ requests_list = <<>>
    /\ algo_var = "FCFS"
    /\ direction_var = "right"
    /\ pc = "idle"
    /\ todo = <<>>
    /\ scheduler = None
    /\ remaining = <<>>
    /\ results = EmptyResults
    /\ error = NoError

load_preset ==
    /\ pc = "idle"
    /\ disk_size_entry' = PresetDiskSize
    /\ head_entry' = PresetHead
    /\ requests_entry' = PresetRequests
    /\ UNCHANGED <<requests_list, algo_var, direction_var, pc, todo, scheduler,
                   remaining, results, error>>

\* run_simulation up to the first policy call, with the combo boxes as chosen
run_simulation(algo, direction) ==
    /\ pc = "idle"
    /\ LET msg == validate_inputs(disk_size_entry, head_entry, requests_entry)
       IN IF msg # NoError
          THEN /\ error' = msg
               /\ pc' = "error"
               /\ UNCHANGED <<requests_list, algo_var, direction_var, todo,
                              scheduler, results>>
          ELSE /\ requests_list' = requests_entry
               /\ algo_var' = algo
               /\ direction_var' = direction
               /\ scheduler' = DiskScheduler(requests_entry, head_entry, disk_size_entry)
               /\ todo' = IF algo = "Compare All" THEN Policies ELSE <<algo>>
               /\ results' = EmptyResults
               /\ pc' = "dispatch"
               /\ UNCHANGED error
    /\ UNCHANGED <<disk_size_entry, head_entry, requests_entry, remaining>>

run_fcfs ==
    /\ pc = "dispatch" /\ Head(todo) = "FCFS"
    /\ Returned(fcfs(Instance))
    /\ UNCHANGED <<disk_size_entry, head_entry, requests_entry, algo_var,
                   direction_var, remaining, error>>

run_scan ==
    /\ pc = "dispatch" /\ Head(todo) = "SCAN"
    /\ Returned(scan(Instance, direction_var))
    /\ UNCHANGED <<disk_size_entry, head_entry, requests_entry, algo_var,
                   direction_var, remaining, error>>

run_cscan ==
    /\ pc = "dispatch" /\ Head(todo) = "C-SCAN"
    /\ Returned(cscan(Instance))
    /\ UNCHANGED <<disk_size_entry, head_entry, requests_entry, algo_var,
                   direction_var, remaining, error>>

sstf_enter ==
    /\ pc = "dispatch" /\ Head(todo) = "SSTF"
    /\ scheduler' = sstf_begin(Instance)
    /\ requests_list' = sstf_begin(Instance).requests
    /\ remaining' = Instance.requests
    /\ pc' = "sstf"
    /\ UNCHANGED <<disk_size_entry, head_entry, requests_entry, algo_var,
                   direction_var, todo, results, error>>

\* one iteration of the loop; the same step whoever called sstf
sstf_step ==
    /\ pc = "sstf" /\ remaining # <<>>
    /\ LET it == sstf_iterate(scheduler, remaining)
       IN /\ scheduler' = it.self
          /\ requests_list' = it.self.requests
          /\ remaining' = it.remaining
    /\ UNCHANGED <<disk_size_entry, head_entry, requests_entry, algo_var,
                   direction_var, pc, todo, results, error>>

sstf_return ==
    /\ pc = "sstf" /\ remaining = <<>>
    /\ Returned(calculate_metrics(scheduler))
    /\ UNCHANGED <<disk_size_entry, head_entry, requests_entry, algo_var,
                   direction_var, remaining, error>>

Next ==
    \/ load_preset
    \/ \E algo \in Algorithms, direction \in Directions : run_simulation(algo, direction)
    \/ run_fcfs
    \/ run_scan
    \/ run_cscan
    \/ sstf_enter
    \/ sstf_step
    \/ sstf_return

Spec == Init /\ [][Next]_vars

----------------------------------------------------------------------------
(* DiskScheduler used directly: one instance, built from valid inputs, on  *)
(* which a caller invokes the policies in any order, any number of times.  *)
(* algo_var is the policy called last, direction_var the direction of the  *)
(* last scan call, results what the last call returned.                    *)

\* policy a has returned to the caller
Called(a, call) ==
    /\ scheduler' = call.self
    /\ requests_list' = call.self.requests
    /\ results' = Store(EmptyResults, a, call.self, call.ret)
    /\ algo_var' = a
    /\ pc' = "ready"

EngineInit ==
    /\ \/ /\ disk_size_entry \in Values
          /\ head_entry \in Values
          /\ requests_entry \in RequestLists
       \/ /\ disk_size_entry = PresetDiskSize
          /\ head_entry = PresetHead
          /\ requests_entry = PresetRequests
    /\ validate_inputs(disk_size_entry, head_entry, requests_entry) = NoError
    /\ requests_list = requests_entry
    /\ scheduler = DiskScheduler(requests_entry, head_entry, disk_size_entry)
    /\ algo_var = "FCFS"
    /\ direction_var = "right"
    /\ pc = "ready"
    /\ todo = <<>>
    /\ remaining = <<>>
    /\ results = EmptyResults
    /\ error = NoError

call_fcfs ==
    /\ pc = "ready"
    /\ Called("FCFS", fcfs(scheduler))
    /\ UNCHANGED <<disk_size_entry, head_entry, requests_entry, direction_var,
                   todo, remaining, error>>

call_scan(direction) ==
    /\ pc = "ready"
    /\ Called("SCAN", scan(scheduler, direction))
    /\ direction_var' = direction
    /\ UNCHANGED <<disk_size_entry, head_entry, requests_entry, todo, remaining,
                   error>>

call_cscan ==
    /\ pc = "ready"
    /\ Called("C-SCAN", cscan(scheduler))
    /\ UNCHANGED <<disk_size_entry, head_entry, requests_entry, direction_var,
                   todo, remaining, error>>

call_sstf ==
    /\ pc = "ready"
    /\ scheduler' = sstf_begin(scheduler)
    /\ requests_list' = sstf_begin(scheduler).requests
    /\ remaining' = scheduler.requests
    /\ algo_var' = "SSTF"
    /\ pc' = "sstf"
    /\ UNCHANGED <<disk_size_entry, head_entry, requests_entry, direction_var,
                   todo, results, error>>

sstf_returned ==
    /\ pc = "sstf" /\ remaining = <<>>
    /\ Called("SSTF", calculate_metrics(scheduler))
    /\ UNCHANGED <<disk_size_entry, head_entry, requests_entry, direction_var,
                   todo, remaining, error>>

EngineNext ==
    \/ call_fcfs
    \/ \E direction \in Directions : call_scan(direction)
    \/ call_cscan
    \/ call_sstf
    \/ sstf_step
    \/ sstf_returned

EngineSpec == EngineInit /\ [][EngineNext]_vars

----------------------------------------------------------------------------
(* Vocabulary of the properties *)

Elems(s) == {s[i] : i \in DOMAIN s}

Occurrences(s, v) == Cardinality({i \in DOMAIN s : s[i] = v})

\* the same cylinders, each as many times
SameMultiset(s, t) ==
    \A v \in Elems(s) \cup Elems(t) : Occurrences(s, v) = Occurrences(t, v)

\* part holds exactly the elements of reqs that satisfy Keep, each as many times
IsSelection(part, reqs, Keep(_)) ==
    \A v \in Elems(part) \cup Elems(reqs) :
        Occurrences(part, v) = IF Keep(v) THEN Occurrences(reqs, v) ELSE 0

Ascending(s) == \A i \in 1..(Len(s) - 1) : s[i] <= s[i+1]

Descending(s) == \A i \in 1..(Len(s) - 1) : s[i] >= s[i+1]

Largest(s) == CHOOSE m \in Elems(s) : \A v \in Elems(s) : v <= m

Smallest(s) == CHOOSE m \in Elems(s) : \A v \in Elems(s) : m <= v

\* s without its k-th element
DropAt(s, k) == [i \in 1..(Len(s) - 1) |-> IF i < k THEN s[i] ELSE s[i+1]]

\* a is b with some positions deleted, the others in b's order
RECURSIVE IsSubseq(_, _)
IsSubseq(a, b) ==
    IF a = <<>> THEN TRUE
    ELSE IF b = <<>> THEN FALSE
    ELSE IF Head(a) = Head(b) THEN IsSubseq(Tail(a), Tail(b))
    ELSE IsSubseq(a, Tail(b))

\* the distance travelled along s, accumulated from its first element
Travelled(s) ==
    LET acc[i \in 1..Len(s)] ==
            IF i = 1 THEN 0
            ELSE acc[i-1] + (IF s[i] >= s[i-1] THEN s[i] - s[i-1] ELSE s[i-1] - s[i])
    IN IF s = <<>> THEN 0 ELSE acc[Len(s)]

Ran(a) == a \in DOMAIN results

SeqOf(a) == results[a][1]

TotalOf(a) == results[a][2][1]

AvgOf(a) == results[a][2][2]

ThroughputOf(a) == results[a][2][3]

PresetEntered ==
    /\ disk_size_entry = PresetDiskSize
    /\ head_entry = PresetHead
    /\ requests_entry = PresetRequests

----------------------------------------------------------------------------
(* C1: for every policy and every valid input the reported throughput is   *)
(* len(requests) / (total_seek + 1); in particular it is len(requests)     *)
(* when total_seek is 0.                                                   *)
C1_ThroughputIsCountOverTotalPlusOne ==
    \A a \in DOMAIN results :
        /\ ThroughputOf(a)[2] > 0
        /\ ThroughputOf(a)[1] * (TotalOf(a) + 1)
              = Len(requests_entry) * ThroughputOf(a)[2]

(* C2: for disk_size=200, head=50, requests=[98,183,37,122,14,124,65,67]   *)
(* the SSTF seek sequence is [50,65,67,37,14,98,122,124,183].              *)
C2_PresetSstfAsClaimed ==
    (PresetEntered /\ Ran("SSTF"))
        => SeqOf("SSTF") = <<50, 65, 67, 37, 14, 98, 122, 124, 183>>

(* C2, amended: for those inputs the SSTF seek sequence is                 *)
(* [50,37,14,65,67,98,122,124,183]: 37 is 13 away from 50, 65 is 15 away.  *)
C2_PresetSstfSequence ==
    (PresetEntered /\ Ran("SSTF"))
        => SeqOf("SSTF") = <<50, 37, 14, 65, 67, 98, 122, 124, 183>>

C2_Witness == PresetEntered /\ Ran("SSTF") /\ pc = "done"

(* C3: every iteration of sstf appends one remaining request that is at    *)
(* least distance from the last element of the seek sequence, the earliest *)
(* such request in list order, and removes exactly that one occurrence     *)
(* from the remaining list; the remaining list keeps the caller's order.   *)
C3_SstfPicksFirstNearest ==
    /\ [][(pc = "sstf" /\ pc' = "sstf") =>
            LET seq == scheduler.seek_sequence
                last == seq[Len(seq)]
                Dist(x) == IF x >= last THEN x - last ELSE last - x
            IN \E k \in 1..Len(remaining) :
                  /\ scheduler'.seek_sequence = Append(seq, remaining[k])
                  /\ \A j \in 1..Len(remaining) : Dist(remaining[j]) >= Dist(remaining[k])
                  /\ \A j \in 1..(k - 1) : Dist(remaining[j]) > Dist(remaining[k])
                  /\ remaining' = DropAt(remaining, k)]_vars
    /\ [](pc = "sstf" => IsSubseq(remaining, requests_entry))

C3_Witness ==
    /\ pc = "sstf"
    /\ Len(scheduler.seek_sequence) = 2
    /\ Len(remaining) = 2
    /\ \E i, j \in 1..Len(requests_entry) :
          /\ i < j
          /\ requests_entry[i] # requests_entry[j]
          /\ Abs(requests_entry[i] - head_entry) = Abs(requests_entry[j] - head_entry)
          /\ \A k \in 1..Len(requests_entry) :
                Abs(requests_entry[k] - head_entry) >= Abs(requests_entry[i] - head_entry)
          /\ scheduler.seek_sequence[2] = requests_entry[i]

(* C4: SSTF's seek sequence after the head is a permutation of requests as *)
(* a multiset, nothing inserted: len(requests)+1 elements, and the loop    *)
(* has run len(requests) times when the remaining list is empty.           *)
C4_SstfIsPermutation ==
    /\ pc = "sstf" =>
          /\ scheduler.seek_sequence[1] = head_entry
          /\ SameMultiset(Tail(scheduler.seek_sequence) \o remaining, requests_entry)
          /\ (Len(scheduler.seek_sequence) - 1) + Len(remaining) = Len(requests_entry)
    /\ Ran("SSTF") =>
          /\ SeqOf("SSTF")[1] = head_entry
          /\ SameMultiset(Tail(SeqOf("SSTF")), requests_entry)
          /\ Len(SeqOf("SSTF")) = Len(requests_entry) + 1

C4_Witness ==
    /\ Ran("SSTF")
    /\ Len(requests_entry) = 3
    /\ requests_entry[1] = requests_entry[3]
    /\ requests_entry[1] # requests_entry[2]

(* C5: scan to the right yields [head], the requests >= head ascending,    *)
(* disk_size-1 if and only if some request is >= head and the largest      *)
(* request is not disk_size-1, then the requests < head descending; for    *)
(* the preset inputs that is [50,65,67,98,122,124,183,199,37,14].          *)
C5_ScanRightSequence ==
    (Ran("SCAN") /\ direction_var = "right") =>
        LET s == SeqOf("SCAN")
            reqs == requests_entry
            nR == Cardinality({i \in DOMAIN reqs : reqs[i] >= head_entry})
            nL == Len(reqs) - nR
            b == IF nR > 0 /\ Largest(reqs) # disk_size_entry - 1 THEN 1 ELSE 0
        IN /\ Len(s) = 1 + nR + b + nL
           /\ s[1] = head_entry
           /\ Ascending(SubSeq(s, 2, 1 + nR))
           /\ IsSelection(SubSeq(s, 2, 1 + nR), reqs, LAMBDA v : v >= head_entry)
           /\ b = 1 => s[2 + nR] = disk_size_entry - 1
           /\ Descending(SubSeq(s, 2 + nR + b, Len(s)))
           /\ IsSelection(SubSeq(s, 2 + nR + b, Len(s)), reqs, LAMBDA v : v < head_entry)
           /\ PresetEntered => s = <<50, 65, 67, 98, 122, 124, 183, 199, 37, 14>>

C5_Witness == PresetEntered /\ Ran("SCAN") /\ direction_var = "right"

(* C6: scan to the left yields [head], the requests <= head descending, 0  *)
(* if and only if some request is <= head and the smallest request is not  *)
(* 0, then the requests > head ascending; a request equal to head is in    *)
(* the left part here.                                                     *)
C6_ScanLeftSequence ==
    (Ran("SCAN") /\ direction_var = "left") =>
        LET s == SeqOf("SCAN")
            reqs == requests_entry
            nL == Cardinality({i \in DOMAIN reqs : reqs[i] <= head_entry})
            nR == Len(reqs) - nL
            b == IF nL > 0 /\ Smallest(reqs) # 0 THEN 1 ELSE 0
        IN /\ Len(s) = 1 + nL + b + nR
           /\ s[1] = head_entry
           /\ Descending(SubSeq(s, 2, 1 + nL))
           /\ IsSelection(SubSeq(s, 2, 1 + nL), reqs, LAMBDA v : v <= head_entry)
           /\ b = 1 => s[2 + nL] = 0
           /\ Ascending(SubSeq(s, 2 + nL + b, Len(s)))
           /\ IsSelection(SubSeq(s, 2 + nL + b, Len(s)), reqs, LAMBDA v : v > head_entry)

C6_Witness ==
    /\ Ran("SCAN") /\ direction_var = "left"
    /\ head_entry \in Elems(requests_entry)
    /\ 0 \notin Elems(requests_entry)
    /\ \E i \in DOMAIN requests_entry : requests_entry[i] > head_entry
    /\ SeqOf("SCAN")[2] = head_entry

(* C7: cscan yields [head], the requests >= head ascending, disk_size-1 if *)
(* and only if some request is >= head and the largest request is not      *)
(* disk_size-1, then 0 in every case, then the requests < head ascending;  *)
(* for the preset inputs that is [50,65,67,98,122,124,183,199,0,14,37].    *)
C7_CscanSequence ==
    Ran("C-SCAN") =>
        LET s == SeqOf("C-SCAN")
            reqs == requests_entry
            nR == Cardinality({i \in DOMAIN reqs : reqs[i] >= head_entry})
            nL == Len(reqs) - nR
            b == IF nR > 0 /\ Largest(reqs) # disk_size_entry - 1 THEN 1 ELSE 0
        IN /\ Len(s) = 1 + nR + b + 1 + nL
           /\ s[1] = head_entry
           /\ Ascending(SubSeq(s, 2, 1 + nR))
           /\ IsSelection(SubSeq(s, 2, 1 + nR), reqs, LAMBDA v : v >= head_entry)
           /\ b = 1 => s[2 + nR] = disk_size_entry - 1
           /\ s[2 + nR + b] = 0
           /\ Ascending(SubSeq(s, 3 + nR + b, Len(s)))
           /\ IsSelection(SubSeq(s, 3 + nR + b, Len(s)), reqs, LAMBDA v : v < head_entry)
           /\ PresetEntered => s = <<50, 65, 67, 98, 122, 124, 183, 199, 0, 14, 37>>

C7_Witness == PresetEntered /\ Ran("C-SCAN")

(* C8: FCFS's seek sequence is [head] followed by requests in the order    *)
(* given, nothing sorted, dropped or inserted; for the preset inputs it is *)
(* [50,98,183,37,122,14,124,65,67] and the total seek is 643.              *)
C8_FcfsSequence ==
    Ran("FCFS") =>
        /\ Len(SeqOf("FCFS")) = Len(requests_entry) + 1
        /\ SeqOf("FCFS")[1] = head_entry
        /\ \A i \in 1..Len(requests_entry) : SeqOf("FCFS")[i + 1] = requests_entry[i]
        /\ PresetEntered =>
              /\ SeqOf("FCFS") = <<50, 98, 183, 37, 122, 14, 124, 65, 67>>
              /\ TotalOf("FCFS") = 643

C8_Witness == PresetEntered /\ Ran("FCFS")

(* C9: for every policy the reported total_seek is the sum of the absolute *)
(* differences of consecutive elements of the seek sequence of that run,   *)
(* boundary visits included; it is a non-negative integer.                 *)
C9_TotalSeekIsDistanceTravelled ==
    \A a \in DOMAIN results :
        /\ TotalOf(a) = Travelled(SeqOf(a))
        /\ TotalOf(a) \in Nat

C9_Witness ==
    /\ Ran("C-SCAN")
    /\ Len(SeqOf("C-SCAN")) = Len(requests_entry) + 3
    /\ TotalOf("C-SCAN") > 0

(* C10: for every policy the reported average seek distance is total_seek  *)
(* divided by len(requests), not by the length of the seek sequence.       *)
C10_AverageOverRequestCount ==
    \A a \in DOMAIN results :
        /\ AvgOf(a)[2] > 0
        /\ AvgOf(a)[1] * Len(requests_entry) = TotalOf(a) * AvgOf(a)[2]

C10_Witness ==
    /\ Ran("SCAN")
    /\ Len(SeqOf("SCAN")) = Len(requests_entry) + 2
    /\ TotalOf("SCAN") > 0

(* C11: a run is rejected with an input error when requests is empty,      *)
(* disk_size <= 0, head is outside [0, disk_size) or a request is outside  *)
(* [0, disk_size); a rejected run constructs no scheduler and yields no    *)
(* result, and every other run reaches the policy.                         *)
C11_RejectedBeforeAnyPolicy ==
    LET InRange(x) == x >= 0 /\ x + 1 <= disk_size_entry
        Acceptable ==
            /\ Len(requests_entry) >= 1
            /\ disk_size_entry >= 1
            /\ InRange(head_entry)
            /\ \A v \in Elems(requests_entry) : InRange(v)
    IN /\ pc = "error" =>
            /\ ~Acceptable
            /\ error # NoError
            /\ scheduler = None
            /\ results = EmptyResults
            /\ todo = <<>> /\ remaining = <<>>
       /\ pc \in {"dispatch", "sstf", "done"} =>
            /\ Acceptable
            /\ error = NoError
            /\ scheduler # None

C11_Witness ==
    /\ pc = "error"
    /\ disk_size_entry > 0
    /\ head_entry = disk_size_entry
    /\ requests_entry # <<>>
    /\ \A v \in Elems(requests_entry) : v >= 0 /\ v < disk_size_entry

(* C12: every cylinder of the seek sequence of SCAN (either direction) and *)
(* of C-SCAN, boundary visits included, lies in [0, disk_size).            *)
C12_ScanStaysOnDisk ==
    \A a \in {"SCAN", "C-SCAN"} \cap DOMAIN results :
        \A i \in DOMAIN SeqOf(a) :
            SeqOf(a)[i] >= 0 /\ SeqOf(a)[i] < disk_size_entry

C12_Witness ==
    /\ Ran("SCAN") /\ Ran("C-SCAN")
    /\ disk_size_entry - 1 \notin Elems(requests_entry)
    /\ disk_size_entry - 1 \in Elems(SeqOf("SCAN"))
    /\ disk_size_entry - 1 \in Elems(SeqOf("C-SCAN"))
    /\ 0 \notin Elems(requests_entry)

\* what one call of policy a returns on a scheduler just built from the
\* fields: its seek sequence and its metrics
RECURSIVE NearestFirst(_, _)
NearestFirst(seq, rem) ==
    IF rem = <<>> THEN seq
    ELSE LET c == closest(rem, seq[Len(seq)])
         IN NearestFirst(Append(seq, c), Remove(rem, c))

SingleRun(a, direction) ==
    LET fresh == DiskScheduler(requests_entry, head_entry, disk_size_entry)
        call == CASE a = "FCFS" -> fcfs(fresh)
                  [] a = "SSTF" ->
                        calculate_metrics([fresh EXCEPT !.seek_sequence =
                            NearestFirst(<<head_entry>>, requests_entry)])
                  [] a = "SCAN" -> scan(fresh, direction)
                  [] a = "C-SCAN" -> cscan(fresh)
    IN <<call.self.seek_sequence, call.ret>>

(* C13: the result map of a finished run has one entry, keyed by the       *)
(* chosen policy, for a single-policy run and the four entries FCFS, SSTF, *)
(* SCAN, C-SCAN for Compare All; each entry is what a run of that policy   *)
(* alone returns on the same fields, and the request list the later        *)
(* policies are given is the one that was entered.                         *)
C13_CompareAllEqualsSingleRuns ==
    /\ pc = "done" =>
          DOMAIN results = IF algo_var = "Compare All"
                           THEN {"FCFS", "SSTF", "SCAN", "C-SCAN"}
                           ELSE {algo_var}
    /\ pc \in {"dispatch", "sstf", "done"} =>
          /\ requests_list = requests_entry
          /\ \A a \in DOMAIN results : results[a] = SingleRun(a, direction_var)

C13_Witness ==
    /\ pc = "done" /\ algo_var = "Compare All"
    /\ Cardinality(DOMAIN results) = 4
    /\ Len(requests_entry) = 3
    /\ SeqOf("SSTF") # SeqOf("FCFS")
    /\ SeqOf("SCAN") # SeqOf("C-SCAN")

(* C14: no policy call changes the scheduler's requests, head or           *)
(* disk_size; after any sequence of policy calls on one instance, the seek *)
(* sequence and metrics of the last call are those the same policy gives   *)
(* on a scheduler just built from the original inputs.                     *)
C14_CallsLeaveInputsAndDoNotInterfere ==
    /\ [][/\ scheduler'.requests = scheduler.requests
          /\ scheduler'.head = scheduler.head
          /\ scheduler'.disk_size = scheduler.disk_size
          /\ requests_list' = requests_list]_vars
    /\ []((pc = "ready" /\ algo_var \in DOMAIN results) =>
            /\ results[algo_var] = SingleRun(algo_var, direction_var)
            /\ scheduler.seek_sequence = results[algo_var][1]
            /\ scheduler.total_seek = results[algo_var][2][1])

\* fcfs has returned on an instance on which scan("left") ran before it
C14_Witness ==
    /\ pc = "ready" /\ algo_var = "FCFS"
    /\ DOMAIN results = {"FCFS"}
    /\ direction_var = "left"
    /\ Len(requests_entry) = 3
    /\ ~Ascending(requests_entry)
    /\ scheduler.requests = requests_entry

====
